---- MODULE Spec2Model ----
(***************************************************************************)
(* Model of src/data/generate_synthetic_data.py: the synthetic patient     *)
(* generator (generate_all_patient_data, generate_daily_time_series) and   *)
(* the Elasticsearch ingestion (ingest_data, the __main__ block).          *)
(*                                                                         *)
(* Numbers.  Floats are fixed-point: a weight or an oxygen saturation is   *)
(* an integer number of thousandths; a value emitted through round(x, 2)   *)
(* is an integer number of hundredths.                                     *)
(*                                                                         *)
(* Randomness.  The random module is a deterministic generator whose only  *)
(* input is its seed.  The state of the generator is the variable rng, the *)
(* seed is drawn in Init, and every random.* call of the source advances   *)
(* the stream once and derives its result from the new state, in the order *)
(* in which the source makes the calls.                                    *)
(***************************************************************************)
EXTENDS Integers, Sequences, FiniteSets, TLC

\* ---------------------------------------------------------------- bounds
\* Number of generator seeds explored (seeds 0..MaxSeed).
MaxSeed == 23
\* The script fixes NUM_PATIENTS = 100; the model runs the same loop with a
\* smaller count.
NUM_PATIENTS == 2

\* ------------------------------------------------------------- constants
DAYS_OF_DATA == 30

\* Identifiers fake.uuid4() may return (two draws may collide).
UUIDS == {"u1", "u2"}
\* Values os.getenv may return for a configuration variable.
EnvValues == {"None", "set"}

None == "None"
NoInfo == [profile_type |-> "None"]
NoDate == [day |-> 0, sec |-> 0]

\* ------------------------------------------------------ the random stream
\* One step of the generator (a full-period 16-bit congruential generator).
Advance(r) == (25173 * r + 13849) % 65536

\* The top ten bits of the state: random.random() as a fraction of 1024.
Fraction(r) == r \div 64

\* random.randint(lo, hi): an integer in lo..hi, both ends included.
RandInt(r, lo, hi) == lo + ((hi - lo + 1) * Fraction(r)) \div 1024

\* random.uniform(lo, hi) on thousandths: a value in lo..hi, ends included.
Uniform(r, lo, hi) == lo + ((hi - lo) * Fraction(r)) \div 1023

\* round(x, 2): thousandths to hundredths, ties to the even neighbour.
Round2(x) ==
    LET q == x \div 10
        m == x % 10
    IN  IF m < 5 THEN q
        ELSE IF m > 5 THEN q + 1
        ELSE IF q % 2 = 0 THEN q ELSE q + 1

\* ------------------------------------------------------------ dictionaries
\* dict.update: the keys of upd are added to d, overwriting equal keys.
Update(d, upd) ==
    [k \in (DOMAIN d) \cup (DOMAIN upd) |->
        IF k \in DOMAIN upd THEN upd[k] ELSE d[k]]

\* ------------------------------------------------------------------ dates
\* datetime - timedelta(days=n) and datetime + timedelta(days=n).
PlusDays(dt, n) == [day |-> dt.day + n, sec |-> dt.sec]

\* datetime.isoformat(): the text "<date>T<time>", here the pair of its parts.
IsoFormat(dt) == <<dt.day, dt.sec>>

\* datetime.fromisoformat(): parses the text back into a datetime.
FromIsoFormat(s) == [day |-> s[1], sec |-> s[2]]

\* The wall clock one second later.
Tick(dt) ==
    IF dt.sec = 86399 THEN [day |-> dt.day + 1, sec |-> 0]
    ELSE [day |-> dt.day, sec |-> dt.sec + 1]

\* Variant: the day number counted from 1.
DaysBetweenOneBased(a, b) == (a.day - b.day) + 1

\* (a - b).days: whole days of the difference, rounded towards -infinity.
DaysBetween(a, b) == ((a.day - b.day) * 86400 + (a.sec - b.sec)) \div 86400

\* --------------------------------------------------------------- profiles
PROFILES == <<"stable", "high_risk_weight_gain", "non_adherent">>

\* PATIENT_PROFILES[p]["weight"], in tenths.
ProfileWeight(p) ==
    IF p = "stable" THEN 7
    ELSE IF p = "high_risk_weight_gain" THEN 2
    ELSE 1

\* choose_profile: random.choices with the weights above; the first profile
\* whose cumulative weight exceeds the draw.
choose_profile(r) ==
    LET u == (10 * Fraction(r)) \div 1024
        c1 == ProfileWeight(PROFILES[1])
        c2 == c1 + ProfileWeight(PROFILES[2])
    IN  IF u < c1 THEN PROFILES[1]
        ELSE IF u < c2 THEN PROFILES[2]
        ELSE PROFILES[3]

COMORBIDITIES == <<"Diabetes", "Hypertension", "Chronic Kidney Disease", "COPD">>

\* The sequence s without its i-th element.
RemoveAt(s, i) == SubSeq(s, 1, i - 1) \o SubSeq(s, i + 1, Len(s))

\* random.sample(pool, k): k picks without replacement, one draw per pick.
\* Returns the picks and the generator state after them.
RECURSIVE Sample(_, _, _)
Sample(r, pool, k) ==
    IF k = 0 THEN [items |-> <<>>, rng |-> r]
    ELSE LET r1 == Advance(r)
             i == RandInt(r1, 1, Len(pool))
             rest == Sample(r1, RemoveAt(pool, i), k - 1)
         IN  [items |-> <<pool[i]>> \o rest.items, rng |-> rest.rng]

\* ------------------------------------------- the daily simulation's pieces
\* random.uniform(150.0, 250.0): the weight a series starts from.
SeedWeight(r) == Uniform(r, 150000, 250000)

\* random.uniform(-0.5, 0.5): the daily fluctuation of every profile.
Jitter(r) == Uniform(r, -500, 500)

\* random.uniform(1.0, 2.5): the extra daily gain of an active weight gain.
RapidGain(r) == Uniform(r, 1000, 2500)

\* random.randint(5, 20) for the profile that has a start day, else -1.
StartDay(r, profile, wanted) == IF profile = wanted THEN RandInt(r, 5, 20) ELSE -1

\* Variant: the gain starts the day after the start day.
WeightGainAfterStart(profile, d, start) ==
    profile = "high_risk_weight_gain" /\ d > start

\* The condition of the "Sudden Weight Gain" branch.
WeightGainActive(profile, d, start) ==
    profile = "high_risk_weight_gain" /\ d >= start

\* Variant: medication missed for three days only.
NonAdherenceThreeDays(profile, d, start) ==
    profile = "non_adherent" /\ d >= start /\ d < start + 3

\* The condition of the "Medication Non_Adherence" branch.
NonAdherenceActive(profile, d, start) ==
    profile = "non_adherent" /\ d >= start

\* Variant: the swelling score left in its normal range.
SwellingNotElevated(r) == RandInt(r, 1, 3)

\* symptom_swelling while the weight gain is active: random.randint(4, 8).
SwellingElevated(r) == RandInt(r, 4, 8)

\* Variant: the window taken one day short.
WeightGainOver2Days(d, weight, weights) ==
    IF d >= 3 THEN weight - weights[(d - 2) + 1] ELSE 0

\* The rolling weight metric; weights holds today's weight as its last entry
\* (Python index k is position k + 1).
WeightGainOver3Days(d, weight, weights) ==
    IF d >= 3 THEN weight - weights[(d - 3) + 1] ELSE 0

\* Variant: a running counter of the missed days in a row.
MissedMedsStreak(d, adherent, adherence) ==
    Cardinality({j \in 1..Len(adherence) :
                    \A i \in j..Len(adherence) : ~adherence[i]})

\* The missed-medication metric; adherence holds today's flag as its last
\* entry.  Python's adherence[d - 1] with d = 0 is adherence[-1], the last.
ConsecutiveMissedMeds(d, adherent, adherence) ==
    LET prev == IF d >= 1 THEN adherence[(d - 1) + 1] ELSE adherence[Len(adherence)]
    IN  IF ~adherent /\ d >= 1 /\ ~prev THEN 2 ELSE 0

\* The dictionary passed to daily_record.update(...), then the symptoms.
DailyFields(weight, bps, bpd, hr, o2, adherent, gain3, missed, dsd) ==
    [k \in {"weight", "blood_pressure_systolic", "blood_pressure_diastolic",
            "heart_rate", "oxygen_saturation", "medication_adherence",
            "weight_gain_over_3_days", "consecutive_missed_meds",
            "days_since_discharge"} |->
        CASE k = "weight" -> Round2(weight)
          [] k = "blood_pressure_systolic" -> bps
          [] k = "blood_pressure_diastolic" -> bpd
          [] k = "heart_rate" -> hr
          [] k = "oxygen_saturation" -> Round2(o2)
          [] k = "medication_adherence" -> adherent
          [] k = "weight_gain_over_3_days" -> Round2(gain3)
          [] k = "consecutive_missed_meds" -> missed
          [] k = "days_since_discharge" -> dsd]

Symptoms(sob, fatigue, swelling) ==
    [k \in {"symptom_shortness_of_breath", "symptom_fatigue", "symptom_swelling"} |->
        CASE k = "symptom_shortness_of_breath" -> sob
          [] k = "symptom_fatigue" -> fatigue
          [] k = "symptom_swelling" -> swelling]

\* ------------------------------------------------------------- ingestion
\* The exceptions the steps of ingest_data can raise.
Faults == {"ConnectionError", "ApiError", "FileNotFoundError",
           "JSONDecodeError", "BulkIndexError"}

\* Variant: a handler for the client's exceptions only.
CaughtClientErrors(exc) == exc \in {"ConnectionError", "ApiError", "BulkIndexError"}

\* "except Exception": every one of them is an Exception.
Caught(exc) == exc \in Faults

\* Variant: one configuration value is enough.
ConfiguredEither(endpoint, api_key) == endpoint # None \/ api_key # None

\* The truth test of line 170 on the two configuration values.
Configured(endpoint, api_key) == endpoint # None /\ api_key # None

\* Variant: the schema is read before the old index is deleted.
StepAfterSchemaFirst(step, found) ==
    CASE step = "exists" -> "schema"
      [] step = "schema" -> IF found THEN "delete" ELSE "create"
      [] step = "delete" -> "create"
      [] step = "create" -> "bulk"
      [] step = "bulk" -> "return"

\* The step of ingest_data that follows a step that succeeded; found is the
\* answer of indices.exists.
StepAfter(step, found) ==
    CASE step = "exists" -> IF found THEN "delete" ELSE "schema"
      [] step = "delete" -> "schema"
      [] step = "schema" -> "create"
      [] step = "create" -> "bulk"
      [] step = "bulk" -> "return"

\* ------------------------------------------------------------------ state
VARIABLES
    pc,                      \* position of the script
    rng,                     \* state of the random module's generator
    clock,                   \* what datetime.now() reads: day and second of day
    env,                     \* the two configuration values after load_dotenv
    es_index,                \* the index "patients" on the server
    all_patients_records,    \* generate_all_patient_data: the flat result
    patients,                \* every base_patient_info built so far, in order
    base_patient_info,       \* the patient whose series is being generated
    records,                 \* generate_daily_time_series: its locals
    daily_weights,
    daily_adherence,
    series_start_weight,     \* the value current_weight was seeded with
    current_weight,
    discharge_date,
    weight_gain_start_day,
    non_adherent_start_day,
    day,
    all_data,                \* __main__: the generated records
    es_client,               \* __main__: the client, once constructed
    found,                   \* ingest_data: the answer of indices.exists
    mapping,                 \* ingest_data: the schema, once loaded
    steps,                   \* the steps ingest_data has attempted, in order
    exc,                     \* the exception in flight, if any
    printed,                 \* the messages printed, in order
    exit_code                \* exit status, -1 while the script runs

gen_vars == <<all_patients_records, patients, base_patient_info>>
series_vars == <<records, daily_weights, daily_adherence, series_start_weight,
                 current_weight, discharge_date, weight_gain_start_day,
                 non_adherent_start_day, day>>
main_vars == <<all_data, es_client, printed, exit_code>>
ingest_vars == <<es_index, found, mapping, steps, exc>>
vars == <<pc, rng, clock, env, gen_vars, series_vars, main_vars, ingest_vars>>

Init ==
    /\ pc = "patient"
    /\ rng \in 0..MaxSeed
    /\ clock = [day |-> 0, sec |-> 86399]
    /\ env \in [endpoint : EnvValues, api_key : EnvValues]
    /\ es_index \in {[state |-> "absent", docs |-> 0], [state |-> "old", docs |-> 0]}
    /\ all_patients_records = <<>>
    /\ patients = <<>>
    /\ base_patient_info = NoInfo
    /\ records = <<>>
    /\ daily_weights = <<>>
    /\ daily_adherence = <<>>
    /\ series_start_weight = 0
    /\ current_weight = 0
    /\ discharge_date = NoDate
    /\ weight_gain_start_day = -1
    /\ non_adherent_start_day = -1
    /\ day = 0
    /\ all_data = <<>>
    /\ es_client = None
    /\ found = FALSE
    /\ mapping = None
    /\ steps = <<>>
    /\ exc = None
    /\ printed = <<"Starting synthetic data generation...">>
    /\ exit_code = -1

\* ------------------------------------------------ generate_all_patient_data
\* One pass of "for _ in range(NUM_PATIENTS)" up to the call of
\* generate_daily_time_series, and that function's setup before its loop.
GeneratePatient ==
    /\ pc = "patient"
    /\ Len(patients) < NUM_PATIENTS
    /\ \E patient_id \in UUIDS :
        LET r1 == Advance(rng)            \* choose_profile
            r2 == Advance(r1)             \* age
            r3 == Advance(r2)             \* gender
            r4 == Advance(r3)             \* k of the sample
            picked == Sample(r4, COMORBIDITIES, RandInt(r4, 0, 3))
            r5 == Advance(picked.rng)     \* previous_readmissions
            r6 == Advance(r5)             \* days since the discharge
            info == [patient_id |-> patient_id,
                     age |-> RandInt(r2, 65, 95),
                     gender |-> <<"Male", "Female">>[RandInt(r3, 1, 2)],
                     comorbidities |-> picked.items,
                     previous_readmissions |-> RandInt(r5, 0, 5),
                     discharge_date |-> IsoFormat(PlusDays(clock, -RandInt(r6, 30, 90))),
                     profile_type |-> choose_profile(r1)]
            r7 == Advance(r6)             \* current_weight
            r8 == IF info.profile_type = "high_risk_weight_gain" THEN Advance(r7) ELSE r7
            r9 == IF info.profile_type = "non_adherent" THEN Advance(r8) ELSE r8
        IN  /\ base_patient_info' = info
            /\ patients' = Append(patients, info)
            /\ records' = <<>>
            /\ daily_weights' = <<>>
            /\ daily_adherence' = <<>>
            /\ current_weight' = SeedWeight(r7)
            /\ series_start_weight' = SeedWeight(r7)
            /\ discharge_date' = FromIsoFormat(info.discharge_date)
            /\ weight_gain_start_day' = StartDay(r8, info.profile_type, "high_risk_weight_gain")
            /\ non_adherent_start_day' = StartDay(r9, info.profile_type, "non_adherent")
            /\ day' = 0
            /\ rng' = r9
    /\ clock' = Tick(clock)
    /\ pc' = "day"
    /\ UNCHANGED <<env, all_patients_records, main_vars, ingest_vars>>

\* ---------------------------------------------- generate_daily_time_series
\* One pass of "for day in range(DAYS_OF_DATA)".
DayStep ==
    /\ pc = "day"
    /\ day < DAYS_OF_DATA
    /\ LET profile == base_patient_info.profile_type
           record_date == PlusDays(discharge_date, day)
           daily_record == Update(base_patient_info,
                                  [date |-> IsoFormat(record_date)])
           days_since_discharge == DaysBetween(record_date, discharge_date)
           r1 == Advance(rng)            \* jitter
           r2 == Advance(r1)             \* symptom_shortness_of_breath
           r3 == Advance(r2)             \* symptom_fatigue
           r4 == Advance(r3)             \* symptom_swelling
           gaining == WeightGainActive(profile, day, weight_gain_start_day)
           g1 == Advance(r4)             \* rapid gain
           g2 == Advance(g1)             \* symptom_shortness_of_breath
           g3 == Advance(g2)             \* symptom_swelling
           r5 == IF gaining THEN g3 ELSE r4
           missing == NonAdherenceActive(profile, day, non_adherent_start_day)
           n1 == Advance(r5)             \* symptom_fatigue
           r6 == IF missing THEN n1 ELSE r5
           v1 == Advance(r6)             \* blood_pressure_systolic
           v2 == Advance(v1)             \* blood_pressure_diastolic
           v3 == Advance(v2)             \* heart_rate
           v4 == Advance(v3)             \* oxygen_saturation
           weight == current_weight + Jitter(r1)
                       + (IF gaining THEN RapidGain(g1) ELSE 0)
           medication_adherence == ~missing
           symptoms == Symptoms(
               IF gaining THEN RandInt(g2, 4, 8) ELSE RandInt(r2, 1, 3),
               IF missing THEN RandInt(n1, 5, 9) ELSE RandInt(r3, 1, 4),
               IF gaining THEN SwellingElevated(g3) ELSE RandInt(r4, 1, 3))
           weights == Append(daily_weights, weight)
           adherence == Append(daily_adherence, medication_adherence)
           fields == DailyFields(
               weight,
               RandInt(v1, 110, 160), RandInt(v2, 70, 100), RandInt(v3, 60, 100),
               Uniform(v4, 92000, 99000),
               medication_adherence,
               WeightGainOver3Days(day, weight, weights),
               ConsecutiveMissedMeds(day, medication_adherence, adherence),
               days_since_discharge)
       IN  /\ current_weight' = weight
           /\ daily_weights' = weights
           /\ daily_adherence' = adherence
           /\ records' = Append(records, Update(Update(daily_record, fields), symptoms))
           /\ rng' = v4
    /\ day' = day + 1
    /\ pc' = "day"
    /\ UNCHANGED <<clock, env, gen_vars, series_start_weight, discharge_date,
                   weight_gain_start_day, non_adherent_start_day,
                   main_vars, ingest_vars>>

\* Variant: list.append in place of list.extend.
ExtendAsAppend(all, daily_records) == Append(all, daily_records)

\* all_patients_records.extend(daily_records)
Extend(all, daily_records) == all \o daily_records

\* The loop is over: "return records", and the caller's extend.
ReturnSeries ==
    /\ pc = "day"
    /\ day = DAYS_OF_DATA
    /\ all_patients_records' = Extend(all_patients_records, records)
    /\ pc' = "patient"
    /\ UNCHANGED <<rng, clock, env, patients, base_patient_info, series_vars,
                   main_vars, ingest_vars>>

\* "return all_patients_records" and the report of the count.
ReturnAll ==
    /\ pc = "patient"
    /\ Len(patients) = NUM_PATIENTS
    /\ all_data' = all_patients_records
    /\ printed' = Append(printed, "Generated")
    /\ pc' = "config"
    /\ UNCHANGED <<rng, clock, env, gen_vars, series_vars, es_client, exit_code,
                   ingest_vars>>

\* --------------------------------------------------------------- __main__
\* A configuration value is missing: warn and sys.exit(0).
SkipIngestion ==
    /\ pc = "config"
    /\ ~Configured(env.endpoint, env.api_key)
    /\ printed' = Append(printed, "WARNING: Skipping ingestion.")
    /\ exit_code' = 0
    /\ pc' = "done"
    /\ UNCHANGED <<rng, clock, env, gen_vars, series_vars, all_data, es_client,
                   ingest_vars>>

\* Both values are set: construct the client and call ingest_data.  The
\* constructor sends nothing; it rejects an endpoint it cannot parse, and
\* that exception is raised outside ingest_data's handler.
Connect ==
    /\ pc = "config"
    /\ Configured(env.endpoint, env.api_key)
    /\ printed' = Append(printed, "Connecting to Elasticsearch...")
    /\ \E accepted \in BOOLEAN :
        IF accepted
        THEN /\ es_client' = "client"
             /\ pc' = "exists"
             /\ exit_code' = exit_code
        ELSE /\ es_client' = es_client
             /\ pc' = "done"
             /\ exit_code' = 1
    /\ UNCHANGED <<rng, clock, env, gen_vars, series_vars, all_data, ingest_vars>>

\* ------------------------------------------------------------ ingest_data
\* A step of the try block raises: control moves to the handler.
Raise(e) ==
    /\ exc' = e
    /\ pc' = "except"

\* es_client.indices.exists(index=index)
IndexExists ==
    /\ pc = "exists"
    /\ steps' = Append(steps, "exists")
    /\ \/ /\ found' = (es_index.state # "absent")
          /\ pc' = StepAfter("exists", es_index.state # "absent")
          /\ printed' = IF StepAfter("exists", es_index.state # "absent") = "delete"
                        THEN Append(printed, "Deleting old index")
                        ELSE printed
          /\ exc' = exc
       \/ /\ Raise("ConnectionError")
          /\ UNCHANGED <<found, printed>>
    /\ UNCHANGED <<rng, clock, env, gen_vars, series_vars, all_data, es_client,
                   exit_code, es_index, mapping>>

\* es_client.indices.delete(index=index)
IndexDelete ==
    /\ pc = "delete"
    /\ steps' = Append(steps, "delete")
    /\ \/ /\ es_index' = [state |-> "absent", docs |-> 0]
          /\ pc' = StepAfter("delete", found)
          /\ exc' = exc
       \/ /\ Raise("ApiError")
          /\ es_index' = es_index
    /\ UNCHANGED <<rng, clock, env, gen_vars, series_vars, main_vars, found, mapping>>

\* open(mapping_path) and json.load(f)
ReadSchema ==
    /\ pc = "schema"
    /\ printed' = Append(printed, "Creating new index")
    /\ steps' = Append(steps, "schema")
    /\ \/ /\ mapping' = "mapping"
          /\ pc' = StepAfter("schema", found)
          /\ exc' = exc
       \/ /\ \E e \in {"FileNotFoundError", "JSONDecodeError"} : Raise(e)
          /\ mapping' = mapping
    /\ UNCHANGED <<rng, clock, env, gen_vars, series_vars, all_data, es_client,
                   exit_code, es_index, found>>

\* es_client.indices.create(index=index, body=mapping); the server refuses
\* to create an index that exists.
IndexCreate ==
    /\ pc = "create"
    /\ steps' = Append(steps, "create")
    /\ \/ /\ es_index.state = "absent"
          /\ es_index' = [state |-> "new", docs |-> 0]
          /\ pc' = StepAfter("create", found)
          /\ exc' = exc
       \/ /\ Raise("ApiError")
          /\ es_index' = es_index
    /\ UNCHANGED <<rng, clock, env, gen_vars, series_vars, main_vars, found, mapping>>

\* bulk(es_client, actions, raise_on_error=True): every record is written,
\* or the helper raises after the server has taken only a part of them.
BulkInsert ==
    /\ pc = "bulk"
    /\ steps' = Append(steps, "bulk")
    /\ \/ /\ es_index' = [es_index EXCEPT !.docs = Len(all_data)]
          /\ printed' = printed \o <<"Ingesting", "Successfully ingested">>
          /\ pc' = StepAfter("bulk", found)
          /\ exc' = exc
       \/ /\ \E n \in {0, Len(all_data) \div 2} :
                es_index' = [es_index EXCEPT !.docs = n]
          /\ printed' = Append(printed, "Ingesting")
          /\ Raise("BulkIndexError")
    /\ UNCHANGED <<rng, clock, env, gen_vars, series_vars, all_data, es_client,
                   exit_code, found, mapping>>

\* "except Exception as e": print the message; ingest_data then returns.
\* An exception the clause does not name leaves the script with a traceback.
HandleException ==
    /\ pc = "except"
    /\ IF Caught(exc)
       THEN /\ printed' = Append(printed, "An error occurred")
            /\ pc' = "return"
            /\ exit_code' = exit_code
       ELSE /\ printed' = printed
            /\ pc' = "done"
            /\ exit_code' = 1
    /\ UNCHANGED <<rng, clock, env, gen_vars, series_vars, all_data, es_client,
                   ingest_vars>>

\* ingest_data has returned: the script ends.
Finish ==
    /\ pc = "return"
    /\ exit_code' = 0
    /\ pc' = "done"
    /\ UNCHANGED <<rng, clock, env, gen_vars, series_vars, all_data, es_client,
                   printed, ingest_vars>>

Next ==
    \/ GeneratePatient
    \/ DayStep
    \/ ReturnSeries
    \/ ReturnAll
    \/ SkipIngestion
    \/ Connect
    \/ IndexExists
    \/ IndexDelete
    \/ ReadSchema
    \/ IndexCreate
    \/ BulkInsert
    \/ HandleException
    \/ Finish

Spec == Init /\ [][Next]_vars

\* ================================================================ claims
Range(s) == {s[k] : k \in 1..Len(s)}

\* The patients whose series has been returned and appended.
Completed == 1..(Len(all_patients_records) \div DAYS_OF_DATA)

\* The records of the i-th generated patient in the flat result.
Group(i) == SubSeq(all_patients_records, DAYS_OF_DATA * (i - 1) + 1, DAYS_OF_DATA * i)

\* Every sequence of daily records built so far: the returned ones and the
\* one generate_daily_time_series is building.
Series == {Group(i) : i \in Completed} \cup {records}

Generated == pc \in {"config", "exists", "delete", "schema", "create", "bulk",
                     "except", "return", "done"}

\* C1: the sequence generate_daily_time_series returns has exactly
\* DAYS_OF_DATA records and its k-th record (k = 0..29) has
\* days_since_discharge = k; while the loop runs it has built one record per
\* day passed, numbered the same way.
C1_ThirtyDaysInOrder ==
    /\ Len(records) = day
    /\ (pc = "patient" /\ patients # <<>>) => Len(records) = DAYS_OF_DATA
    /\ \A s \in Series : \A k \in 1..Len(s) : s[k].days_since_discharge = k - 1
    /\ \A i \in Completed : Len(Group(i)) = DAYS_OF_DATA

C1_Witness ==
    /\ pc = "patient"
    /\ Len(records) = DAYS_OF_DATA
    /\ records[1].days_since_discharge = 0
    /\ records[DAYS_OF_DATA].days_since_discharge = DAYS_OF_DATA - 1

\* C2: generate_all_patient_data returns NUM_PATIENTS * 30 records, patient
\* by patient and day by day: records 30*i .. 30*i+29 carry the base fields of
\* the i-th generated patient unchanged and the days 0..29 in order.
C2_PatientMajorDayMinor ==
    /\ \A i \in Completed : \A k \in 1..DAYS_OF_DATA :
          LET r == all_patients_records[DAYS_OF_DATA * (i - 1) + k]
              b == patients[i]
          IN  /\ r.patient_id = b.patient_id
              /\ r.age = b.age
              /\ r.gender = b.gender
              /\ r.comorbidities = b.comorbidities
              /\ r.profile_type = b.profile_type
              /\ r.days_since_discharge = k - 1
    /\ Generated =>
          /\ Len(all_data) = NUM_PATIENTS * DAYS_OF_DATA
          /\ all_data = all_patients_records
          /\ Len(patients) = NUM_PATIENTS

C2_Witness ==
    /\ pc = "config"
    /\ Len(all_data) = NUM_PATIENTS * DAYS_OF_DATA
    /\ patients[1].patient_id # patients[2].patient_id
    /\ patients[1].age # patients[2].age
    /\ all_data[DAYS_OF_DATA + 1].age = patients[2].age

Abs(x) == IF x < 0 THEN -x ELSE x

\* C3 as stated: weight_gain_over_3_days is 0 on days 0, 1, 2 and otherwise
\* equals the difference of the emitted weight fields of day d and day d-3.
C3_Original ==
    \A s \in Series : \A k \in 1..Len(s) :
        s[k].weight_gain_over_3_days =
            IF k <= 3 THEN 0 ELSE s[k].weight - s[k - 3].weight

\* C3 amended: weight_gain_over_3_days is 0 on days 0, 1, 2 and otherwise is
\* the difference of the unrounded running weights of day d and day d-3,
\* rounded to 2 decimals; it is within 0.01 of the difference of the two
\* emitted weight fields.
C3_RoundedDifference ==
    /\ \A s \in Series : \A k \in 1..Len(s) :
          IF k <= 3 THEN s[k].weight_gain_over_3_days = 0
          ELSE Abs(s[k].weight_gain_over_3_days - (s[k].weight - s[k - 3].weight)) <= 1
    /\ \A k \in 4..Len(records) :
          records[k].weight_gain_over_3_days = Round2(daily_weights[k] - daily_weights[k - 3])

\* A day >= 3 on which the field differs from the difference of the fields.
C3_Witness ==
    \E k \in 4..Len(records) :
        /\ records[k].weight_gain_over_3_days # records[k].weight - records[k - 3].weight
        /\ records[k].weight_gain_over_3_days # 0

\* C4: consecutive_missed_meds is 2 exactly when d >= 1 and
\* medication_adherence is false on day d and on day d-1, and 0 otherwise.
C4_MissedMedsTwoOrZero ==
    \A s \in Series : \A k \in 1..Len(s) :
        s[k].consecutive_missed_meds =
            IF k >= 2 /\ ~s[k].medication_adherence /\ ~s[k - 1].medication_adherence
            THEN 2 ELSE 0

\* A third missed day in a row, and the first missed day of the same run.
C4_Witness ==
    \E k \in 3..Len(records) :
        /\ ~records[k].medication_adherence
        /\ ~records[k - 1].medication_adherence
        /\ ~records[k - 2].medication_adherence
        /\ records[k].consecutive_missed_meds = 2
        /\ \E j \in 2..k : /\ ~records[j].medication_adherence
                           /\ records[j - 1].medication_adherence
                           /\ records[j].consecutive_missed_meds = 0

C6_SwellingFromTrigger ==
    \A i \in Completed :
        patients[i].profile_type = "high_risk_weight_gain" =>
            \E d \in 5..20 : \A k \in 1..DAYS_OF_DATA :
                IF k - 1 >= d THEN Group(i)[k].symptom_swelling \in 4..8
                ELSE Group(i)[k].symptom_swelling \in 1..3

C6_Witness ==
    \E i \in Completed :
        /\ patients[i].profile_type = "high_risk_weight_gain"
        /\ Group(i)[DAYS_OF_DATA].symptom_swelling \in 4..8
        /\ Group(i)[5].symptom_swelling \in 1..3

EitherAbsent == env.endpoint = None \/ env.api_key = None

\* C7: when ELASTICSEARCH_ENDPOINT or API_KEY is absent the run produces
\* all NUM_PATIENTS * 30 records, then exits with code 0; no client is
\* constructed and no ingestion step is attempted.
C7_SkipWithoutConfiguration ==
    EitherAbsent =>
        /\ es_client = None
        /\ steps = <<>>
        /\ \A m \in Range(printed) : m # "Connecting to Elasticsearch..."
        /\ pc \notin {"exists", "delete", "schema", "create", "bulk", "except", "return"}
        /\ pc = "done" =>
              /\ exit_code = 0
              /\ Len(all_data) = NUM_PATIENTS * DAYS_OF_DATA
              /\ printed[Len(printed)] = "WARNING: Skipping ingestion."

\* The endpoint is set, the key is not, and the script has ended.
C7_Witness ==
    /\ pc = "done"
    /\ env.endpoint # None
    /\ env.api_key = None
    /\ exit_code = 0
    /\ Len(all_data) = NUM_PATIENTS * DAYS_OF_DATA

NoRepeats(s) == \A i, j \in 1..Len(s) : s[i] = s[j] => i = j

\* The steps that can raise each exception.
RaisedBy(e) ==
    CASE e = "ConnectionError" -> {"exists"}
      [] e = "ApiError" -> {"delete", "create"}
      [] e = "FileNotFoundError" -> {"schema"}
      [] e = "JSONDecodeError" -> {"schema"}
      [] e = "BulkIndexError" -> {"bulk"}
      [] OTHER -> {}

\* C8: with both values present, a fault raised by a step of ingest_data is
\* caught there and only printed: the step that raised is the last one
\* attempted, no step is attempted twice, and the script exits with code 0.
C8_FaultsSwallowed ==
    exc # None =>
        /\ ~EitherAbsent
        /\ steps # <<>>
        /\ steps[Len(steps)] \in RaisedBy(exc)
        /\ NoRepeats(steps)
        /\ \A m \in Range(printed) : m # "Successfully ingested"
        /\ exit_code # 1
        /\ pc \in {"except", "return", "done"}
        /\ pc = "return" => printed[Len(printed)] = "An error occurred"
        /\ pc = "done" => /\ exit_code = 0
                          /\ printed[Len(printed)] = "An error occurred"

\* The schema file is missing and the script has ended.
C8_Witness ==
    /\ pc = "done"
    /\ exc = "FileNotFoundError"
    /\ exit_code = 0

\* C9: within a series the running weight is seeded once in [150.0, 250.0]
\* and never reset: each day it moves from its previous value by an amount
\* in [-0.5, 0.5], or in [0.5, 3.0] when the profile is
\* high_risk_weight_gain and the day has reached the patient's start day.
C9_RunningWeight ==
    patients # <<>> =>
        /\ series_start_weight \in 150000..250000
        /\ Len(daily_weights) = day
        /\ current_weight = IF day = 0 THEN series_start_weight ELSE daily_weights[day]
        /\ \A d \in 0..(day - 1) :
              LET prev == IF d = 0 THEN series_start_weight ELSE daily_weights[d]
                  delta == daily_weights[d + 1] - prev
              IN  IF /\ base_patient_info.profile_type = "high_risk_weight_gain"
                     /\ d >= weight_gain_start_day
                  THEN delta \in 500..3000
                  ELSE delta \in (-500)..500

\* A weight-gain series past its start day, with a loss before it.
C9_Witness ==
    /\ base_patient_info.profile_type = "high_risk_weight_gain"
    /\ day = DAYS_OF_DATA
    /\ daily_weights[weight_gain_start_day + 1] - daily_weights[weight_gain_start_day] > 500
    /\ daily_weights[1] # series_start_weight
    /\ \E d \in 1..(weight_gain_start_day - 1) : daily_weights[d + 1] < daily_weights[d]

IsPrefix(s, t) == Len(s) <= Len(t) /\ s = SubSeq(t, 1, Len(s))

\* The order of the steps of ingest_data when the index is found, or not.
Plan(f) ==
    IF f THEN <<"exists", "delete", "schema", "create", "bulk">>
    ELSE <<"exists", "schema", "create", "bulk">>

\* C10: ingest_data attempts delete-if-exists, read schema, create index,
\* bulk-insert in this order, each only after every earlier step succeeded,
\* and undoes nothing: when the index existed and the schema read or the
\* creation fails, it returns with the old index deleted, none created and
\* no record submitted.
C10_StepOrderNoUndo ==
    /\ \/ steps = <<>>
       \/ steps = <<"exists">>
       \/ IsPrefix(steps, Plan(found))
    /\ (exc # None /\ steps # <<>>) => pc \in {"except", "return", "done"}
    /\ \A k \in 1..Len(steps) :
          steps[k] = "create" => mapping # None
    /\ (steps # <<>> /\ steps[Len(steps)] = "bulk") => es_index.state = "new"
    /\ ( /\ found
         /\ pc \in {"return", "done"}
         /\ steps # <<>>
         /\ steps[Len(steps)] \in {"schema", "create"}
         /\ exc # None ) =>
            /\ es_index = [state |-> "absent", docs |-> 0]
            /\ \A k \in 1..Len(steps) : steps[k] # "bulk"
            /\ exit_code # 1

\* The old index was deleted, the creation failed, the script has ended.
C10_Witness ==
    /\ pc = "done"
    /\ found
    /\ steps = <<"exists", "delete", "schema", "create">>
    /\ exc = "ApiError"
    /\ es_index.state = "absent"
    /\ exit_code = 0

====
